---- MODULE Spec2Model ----
(***************************************************************************)
(* The two random-value precompiles of the repository:                     *)
(*   - randomNCSPRNG  (core/vm/stateful_precompile/random/random.go), a    *)
(*     stateful precompile deriving n values by HMAC-SHA256 from the       *)
(*     precompile address, the caller address and the caller's nonce;      *)
(*   - randomPRNG     (package vm), a stateless precompile seeded with the *)
(*     wall clock.                                                         *)
(*                                                                         *)
(* Representation.  A byte string is a sequence of integers 0..255.  A     *)
(* big.Int (non-negative) is its minimal big-endian byte string (no        *)
(* leading zero byte; zero is <<>>).  A uint256.Int is a 32-byte string.   *)
(* A digest (Keccak256, HMAC-SHA256) is a free term over its input,        *)
(* written as a bracketed sequence with negative markers, so that two      *)
(* digests are equal exactly when their inputs are equal.  An ABI-encoded  *)
(* output is the sequence of its 32-byte words.                            *)
(***************************************************************************)
EXTENDS Integers, Sequences, FiniteSets, TLC

VARIABLES
    state,      \* the ledger behind contract.StateDB
    call1,      \* an invocation of RandomNCSPRNGFunc and what it returned
    call2,      \* a later invocation with the same caller, address and input
    now,        \* the wall clock, in Unix seconds (time.Now().Unix())
    run1,       \* an invocation of randomPRNG.Run and what it returned
    run2,       \* a later invocation of randomPRNG.Run with the same input
    codecN,     \* the count handed to PackRandomNCSPRNGInput
    packed,     \* what PackRandomNCSPRNGInput returned
    unpacked    \* what UnpackRandomNCSPRNGInput returned

vars == <<state, call1, call2, now, run1, run2, codecN, packed, unpacked>>

-----------------------------------------------------------------------------
(* Bounds of the model *)

\* largest count written in the low byte of an enumerated input
MaxCount == 2
\* largest account nonce the host sets
MaxNonce == 1
\* largest balance, storage value, log count the host produces
MaxLedger == 1
\* seconds the clock advances
MaxTicks == 3

-----------------------------------------------------------------------------
(* Byte strings and big integers *)

Zeros(k) == [i \in 1..k |-> 0]

Fill(k, b) == [i \in 1..k |-> b]

RECURSIVE StripZeros(_)
StripZeros(b) ==
    IF b = <<>> THEN <<>>
    ELSE IF Head(b) = 0 THEN StripZeros(Tail(b)) ELSE b

\* the last w bytes of b, left-padded with zeros to w bytes
LeftPadBytes(b, w) ==
    IF Len(b) >= w THEN SubSeq(b, Len(b) - w + 1, Len(b))
    ELSE Zeros(w - Len(b)) \o b

\* new(big.Int).SetUint64(x)
RECURSIVE SetUint64(_)
SetUint64(x) ==
    IF x = 0 THEN <<>> ELSE SetUint64(x \div 256) \o <<x % 256>>

\* new(big.Int).SetBytes(buf): buf read as a big-endian unsigned integer
SetBytes(buf) == StripZeros(buf)

\* common.BigToHash(b).Bytes(): 32 bytes, left-padded, cropped from the left
BigToHash(b) == LeftPadBytes(b, 32)

RECURSIVE BytesToNat(_)
BytesToNat(b) ==
    IF b = <<>> THEN 0
    ELSE 256 * BytesToNat(SubSeq(b, 1, Len(b) - 1)) + b[Len(b)]

\* a > b for big-endian byte strings of equal length
RECURSIVE GreaterBE(_, _)
GreaterBE(a, b) ==
    IF a = <<>> THEN FALSE
    ELSE IF Head(a) # Head(b) THEN Head(a) > Head(b)
    ELSE GreaterBE(Tail(a), Tail(b))

-----------------------------------------------------------------------------
(* Digests *)

\* crypto.Keccak256(data)
Keccak256(data) == <<-1>> \o data \o <<-9>>

\* HMAC-SHA256 of msg under key
HMACSHA256(key, msg) == <<-2>> \o key \o <<-3>> \o msg \o <<-9>>

\* whether a byte string is a digest term
IsDigest(b) == b # <<>> /\ Head(b) < 0

\* hmac.New(sha256.New, key)
hmacNew(key) == [key |-> key, buf |-> <<>>]

hmacReset(h) == [h EXCEPT !.buf = <<>>]

hmacWrite(h, p) == [h EXCEPT !.buf = @ \o p]

\* h.Sum(nil): the digest of everything written since the last Reset
hmacSum(h) == HMACSHA256(h.key, h.buf)

-----------------------------------------------------------------------------
(* Addresses, errors *)

\* common.HexToAddress("0x6942000000000000000000000000000000000000")
randomNCSPRNGContractAddr == <<105, 66>> \o Zeros(18)

\* common.HexToAddress("0x0000000000000000000000000000000000069420")
randomPRNGContractAddr == Zeros(17) \o <<6, 148, 32>>

\* two externally owned accounts that call the precompile
UserA == <<171, 205>> \o Zeros(18)
UserB == Zeros(19) \o <<1>>

Callers == {UserA, UserB}
ContractAddrs == {randomNCSPRNGContractAddr, randomPRNGContractAddr}
Accounts == {UserA, UserB, randomNCSPRNGContractAddr}

Nil == "nil"
errInvalidInputLength == "invalid input length"
errOverflow == "n overflows uint256"
errOutOfGas == "out of gas"
errMissingSelector == "Function selector is missing"
panicMakeSlice == "panic: runtime error: makeslice: len out of range"

\* abi.Methods["randomNCSPRNG"].ID: Keccak256("randomNCSPRNG(uint256)")[:4]
randomNCSPRNGSelector == <<39, 206, 117, 114>>

-----------------------------------------------------------------------------
(* contract.StateDB: the part of the ledger the interface exposes *)

\* StateDB.GetNonce: the nonce of an account, 0 for an account that does not exist
GetNonce(st, a) == IF a \in DOMAIN st.nonce THEN st.nonce[a] ELSE 0

\* StateDB.SetNonce
SetNonce(st, a, v) == [st EXCEPT !.nonce[a] = v]

\* StateDB.AddBalance
AddBalance(st, a, amount) == [st EXCEPT !.balance[a] = @ + amount]

\* StateDB.SetState
SetState(st, a, value) == [st EXCEPT !.storage[a] = value]

\* StateDB.AddLog
AddLog(st, a) == [st EXCEPT !.logs = Append(@, a)]

\* StateDB.SetPredicateStorageSlots
SetPredicateStorageSlots(st, a, predicates) == [st EXCEPT !.predicates[a] = predicates]

\* accessibleState.GetStateDB()
GetStateDB(accessibleState) == accessibleState

-----------------------------------------------------------------------------
(* Gas *)

\* a cost one unit above what RequiredGas announces
RandomNCSPRNGGasCostOffByOne == 1024 + 1

RandomNCSPRNGGasCost == 1024

\* randomPRNG.RequiredGas
RequiredGas(input) == 1024

\* contract.DeductGas
DeductGas(suppliedGas, requiredGas) ==
    IF suppliedGas < requiredGas
    THEN [remainingGas |-> 0, err |-> errOutOfGas]
    ELSE [remainingGas |-> suppliedGas - requiredGas, err |-> Nil]

-----------------------------------------------------------------------------
(* Codec of randomNCSPRNG *)

\* one 32-byte big-endian ABI word holding the big.Int b; a digest read as a
\* big.Int is a 256-bit value and fills the word
AbiWord(b) == IF IsDigest(b) THEN b ELSE LeftPadBytes(b, 32)

\* PackRandomNCSPRNGInput writing n without padding it to a word
PackRandomNCSPRNGInputUnpadded(n) ==
    IF Len(n) > 32
    THEN [ret |-> <<>>, err |-> "abi: cannot use big.Int as type uint256"]
    ELSE [ret |-> randomNCSPRNGSelector \o n, err |-> Nil]

\* PackRandomNCSPRNGInput: abi.Pack("randomNCSPRNG", n), the method identifier
\* followed by n as one word; abi.Pack refuses an n of more than 256 bits
PackRandomNCSPRNGInput(n) ==
    IF Len(n) > 32
    THEN [ret |-> <<>>, err |-> "abi: cannot use big.Int as type uint256"]
    ELSE [ret |-> randomNCSPRNGSelector \o AbiWord(n), err |-> Nil]

\* UnpackRandomNCSPRNGInput refusing only a payload that is too short
UnpackRandomNCSPRNGInputAtLeast(input) ==
    IF Len(input) < 32
    THEN [n |-> <<>>, err |-> errInvalidInputLength]
    ELSE [n |-> SetBytes(input), err |-> Nil]

UnpackRandomNCSPRNGInput(input) ==
    IF Len(input) # 32
    THEN [n |-> <<>>, err |-> errInvalidInputLength]
    ELSE [n |-> SetBytes(input), err |-> Nil]

\* PackRandomNCSPRNGOutput: a dynamic uint256[] is the offset word, the length word
\* and one word per element
PackRandomNCSPRNGOutput(randomValues) ==
    [ret |-> <<AbiWord(SetUint64(32)), AbiWord(SetUint64(Len(randomValues)))>>
                \o randomValues,
     err |-> Nil]

\* uint256.FromBig reporting an overflow as soon as all 256 bits are in use
FromBigTopBit(b) == [val |-> LeftPadBytes(b, 32), overflow |-> Len(b) >= 32]

\* uint256.FromBig(b): the low 256 bits of b, and whether b has more than 256 bits
FromBig(b) == [val |-> LeftPadBytes(b, 32), overflow |-> Len(b) > 32]

\* (*uint256.Int).Uint64(): the low 64 bits
Uint64(z) == SubSeq(z, 25, 32)

-----------------------------------------------------------------------------
(* generateRandomNCSPRNG *)

\* the largest length make([]*big.Int, len) accepts, 2^45 (2^48 bytes of 8-byte
\* elements); beyond it make panics.  The payloads enumerated hold either a count of
\* at most MaxCount in their low 64 bits or one beyond this length.
MaxSliceLen == <<0, 0, 32, 0, 0, 0, 0, 0>>

\* the loop of generateRandomNCSPRNG from index i on, values so far in acc
RECURSIVE generateLoop(_, _, _, _, _, _)
generateLoop(h, userSeed, nonce, i, count, acc) ==
    IF i >= count THEN acc
    ELSE LET h1 == hmacReset(h)
             h2 == hmacWrite(h1, userSeed)
             h3 == hmacWrite(h2, BigToHash(SetUint64(nonce)))
             h4 == hmacWrite(h3, BigToHash(SetUint64(i)))
             hash == hmacSum(h4)
         IN generateLoop(h4, userSeed, nonce, i + 1, count, Append(acc, SetBytes(hash)))

\* the loop without hmac.Reset(): each message also holds the earlier ones
RECURSIVE generateLoopNoReset(_, _, _, _, _, _)
generateLoopNoReset(h, userSeed, nonce, i, count, acc) ==
    IF i >= count THEN acc
    ELSE LET h2 == hmacWrite(h, userSeed)
             h3 == hmacWrite(h2, BigToHash(SetUint64(nonce)))
             h4 == hmacWrite(h3, BigToHash(SetUint64(i)))
             hash == hmacSum(h4)
         IN generateLoopNoReset(h4, userSeed, nonce, i + 1, count, Append(acc, SetBytes(hash)))

\* generateRandomNCSPRNG reading the nonce of the precompile's own account
generateRandomNCSPRNGOwnNonce(precompileAddr, userAddr, n, st) ==
    LET serverSeed == Keccak256(precompileAddr)
        userSeed == Keccak256(userAddr \o serverSeed)
        nonce == GetNonce(st, precompileAddr)
        len == Uint64(n)
    IN IF GreaterBE(len, MaxSliceLen)
       THEN [randomValues |-> <<>>, err |-> Nil, panic |-> TRUE, state |-> st]
       ELSE [randomValues |-> generateLoop(hmacNew(serverSeed), userSeed, nonce, 0,
                                           BytesToNat(StripZeros(len)), <<>>),
             err |-> Nil, panic |-> FALSE, state |-> st]

\* generateRandomNCSPRNG consuming the caller's nonce: it stores the next one
generateRandomNCSPRNGBumpNonce(precompileAddr, userAddr, n, st) ==
    LET serverSeed == Keccak256(precompileAddr)
        userSeed == Keccak256(userAddr \o serverSeed)
        nonce == GetNonce(st, userAddr)
        len == Uint64(n)
    IN IF GreaterBE(len, MaxSliceLen)
       THEN [randomValues |-> <<>>, err |-> Nil, panic |-> TRUE, state |-> st]
       ELSE [randomValues |-> generateLoop(hmacNew(serverSeed), userSeed, nonce, 0,
                                           BytesToNat(StripZeros(len)), <<>>),
             err |-> Nil, panic |-> FALSE,
             state |-> IF userAddr \in DOMAIN st.nonce
                       THEN SetNonce(st, userAddr, (nonce + 1) % (MaxNonce + 1))
                       ELSE st]

\* generateRandomNCSPRNG without hmac.Reset()
generateRandomNCSPRNGNoReset(precompileAddr, userAddr, n, st) ==
    LET serverSeed == Keccak256(precompileAddr)
        userSeed == Keccak256(userAddr \o serverSeed)
        nonce == GetNonce(st, userAddr)
        len == Uint64(n)
    IN IF GreaterBE(len, MaxSliceLen)
       THEN [randomValues |-> <<>>, err |-> Nil, panic |-> TRUE, state |-> st]
       ELSE [randomValues |-> generateLoopNoReset(hmacNew(serverSeed), userSeed, nonce, 0,
                                                  BytesToNat(StripZeros(len)), <<>>),
             err |-> Nil, panic |-> FALSE, state |-> st]

\* generateRandomNCSPRNG: [randomValues, err], whether make panicked, and the ledger
\* after the call (the StateDB is passed by reference; only GetNonce is called on it)
generateRandomNCSPRNG(precompileAddr, userAddr, n, st) ==
    LET serverSeed == Keccak256(precompileAddr)
        userSeed == Keccak256(userAddr \o serverSeed)
        nonce == GetNonce(st, userAddr)
        len == Uint64(n)
    IN IF GreaterBE(len, MaxSliceLen)
       THEN [randomValues |-> <<>>, err |-> Nil, panic |-> TRUE, state |-> st]
       ELSE [randomValues |-> generateLoop(hmacNew(serverSeed), userSeed, nonce, 0,
                                           BytesToNat(StripZeros(len)), <<>>),
             err |-> Nil, panic |-> FALSE, state |-> st]

-----------------------------------------------------------------------------
(* RandomNCSPRNGFunc *)

\* what a call hands back: kind is "ok" (err = nil), "err" (err # nil) or "panic"
\* (the call does not return)
Returned(ret, remainingGas, err, st) ==
    [kind |-> IF err = Nil THEN "ok" ELSE "err", ret |-> ret,
     remainingGas |-> remainingGas, err |-> err, state |-> st]

Panicked(what, st) ==
    [kind |-> "panic", ret |-> <<>>, remainingGas |-> 0, err |-> what, state |-> st]

\* RandomNCSPRNGFunc decoding before it meters: a bad payload costs nothing
RandomNCSPRNGFuncDecodeFirst(accessibleState, caller, addr, input, suppliedGas, readOnly) ==
    LET unpack == UnpackRandomNCSPRNGInput(input)
        gas == DeductGas(suppliedGas, RandomNCSPRNGGasCost)
    IN IF unpack.err # Nil
       THEN Returned(<<>>, suppliedGas, unpack.err, accessibleState)
       ELSE IF gas.err # Nil
       THEN Returned(<<>>, 0, gas.err, accessibleState)
       ELSE LET nUint256 == FromBig(unpack.n)
                gen == generateRandomNCSPRNG(addr, caller, nUint256.val,
                                             GetStateDB(accessibleState))
                pack == PackRandomNCSPRNGOutput(gen.randomValues)
            IN IF nUint256.overflow
               THEN Returned(<<>>, gas.remainingGas, errOverflow, accessibleState)
               ELSE IF gen.panic THEN Panicked(panicMakeSlice, gen.state)
               ELSE Returned(pack.ret, gas.remainingGas, Nil, gen.state)

RandomNCSPRNGFunc(accessibleState, caller, addr, input, suppliedGas, readOnly) ==
    LET gas == DeductGas(suppliedGas, RandomNCSPRNGGasCost)
    IN IF gas.err # Nil
       THEN Returned(<<>>, 0, gas.err, accessibleState)
       ELSE LET unpack == UnpackRandomNCSPRNGInput(input)
            IN IF unpack.err # Nil
               THEN Returned(<<>>, gas.remainingGas, unpack.err, accessibleState)
               ELSE LET nUint256 == FromBig(unpack.n)
                    IN IF nUint256.overflow
                       THEN Returned(<<>>, gas.remainingGas, errOverflow, accessibleState)
                       ELSE LET gen == generateRandomNCSPRNG(addr, caller, nUint256.val,
                                            GetStateDB(accessibleState))
                            IN IF gen.panic THEN Panicked(panicMakeSlice, gen.state)
                               ELSE IF gen.err # Nil
                               THEN Returned(<<>>, gas.remainingGas, gen.err, gen.state)
                               ELSE LET pack == PackRandomNCSPRNGOutput(gen.randomValues)
                                    IN IF pack.err # Nil
                                       THEN Returned(<<>>, gas.remainingGas, pack.err, gen.state)
                                       ELSE Returned(pack.ret, gas.remainingGas, Nil, gen.state)

-----------------------------------------------------------------------------
(* randomPRNG *)

\* abi.Methods["randomPRNG"].ID: Keccak256("randomPRNG()")[:4]
randomPRNGSelector == <<137, 86, 202, 4>>

\* rand.NewSource(seed): the seed is reduced modulo 2^31 - 1, and 0 is replaced
NewSource(seed) ==
    LET s == seed % 2147483647
    IN IF s = 0 THEN 89482311 ELSE s

\* rng.Int63() of a fresh source: a free term over the reduced seed
Int63(source) == <<-4>> \o SetUint64(source) \o <<-9>>

getRandomNumber(blockNumber) == Int63(NewSource(blockNumber))

\* packRandomPRNGOutput: one uint256 is one word
packRandomPRNGOutput(result) == [ret |-> <<AbiWord(result)>>, err |-> Nil]

\* randomPRNG.Run at clock reading clock
Run(input, clock) ==
    IF Len(input) < 4
    THEN [ret |-> <<>>, err |-> errMissingSelector]
    ELSE LET blockNumber == clock
             resultBigInt == getRandomNumber(blockNumber)
             pack == packRandomPRNGOutput(resultBigInt)
         IN IF pack.err # Nil THEN [ret |-> <<>>, err |-> pack.err]
            ELSE [ret |-> pack.ret, err |-> Nil]

-----------------------------------------------------------------------------
(* Inputs *)

\* a 32-byte payload holding the count k < 256
CountInput(k) == Zeros(31) \o <<k>>

\* a 32-byte payload holding 2^64 + k
Above64Input(k) == Zeros(23) \o <<1>> \o Zeros(7) \o <<k>>

\* 2^256 - 1 and 2^256 - 2
MaxUint256Input == Fill(32, 255)
MaxUint256Minus1Input == Fill(31, 255) \o <<254>>

\* the payload as PackRandomNCSPRNGInput builds it: 36 bytes
SelectorInput(k) == randomNCSPRNGSelector \o CountInput(k)

Inputs ==
    {CountInput(k) : k \in 0..MaxCount}
    \cup {Above64Input(k) : k \in 0..1}
    \cup {MaxUint256Input, MaxUint256Minus1Input}
    \cup {<<>>, Zeros(31), Zeros(33), SelectorInput(1)}

\* one unit short of the cost, the cost, one unit more
GasValues == {1023, 1024, 1025}

PRNGInputs == {<<>>, Zeros(3), randomPRNGSelector, randomPRNGSelector \o <<0>>,
               randomPRNGSelector \o Zeros(32)}

\* counts handed to PackRandomNCSPRNGInput: every big.Int b * 256^k of at most 32 bytes
CodecCounts ==
    {<<>>}
    \cup {SetUint64(k) : k \in 1..MaxCount}
    \cup {<<b>> \o Zeros(k) : b \in {1, 255}, k \in 0..31}
    \cup {Fill(32, 255), Fill(31, 255) \o <<254>>}

-----------------------------------------------------------------------------
(* The state machine *)

NoCall ==
    [kind |-> "none", caller |-> <<>>, addr |-> <<>>, input |-> <<>>, suppliedGas |-> 0,
     readOnly |-> FALSE, nonce |-> 0, ret |-> <<>>, remainingGas |-> 0, err |-> Nil]

NoRun == [kind |-> "none", input |-> <<>>, at |-> 0, ret |-> <<>>, err |-> Nil]

NoUnpack == [kind |-> "none", n |-> <<>>, err |-> Nil]

StartState ==
    [nonce |-> [a \in Accounts |-> 0],
     balance |-> [a \in Accounts |-> 0],
     storage |-> [a \in Accounts |-> 0],
     logs |-> <<>>,
     predicates |-> [a \in Accounts |-> <<>>]]

StartTime == 1793577600

Init ==
    /\ state = StartState
    /\ call1 = NoCall
    /\ call2 = NoCall
    /\ now = StartTime
    /\ run1 = NoRun
    /\ run2 = NoRun
    /\ codecN = <<>>
    /\ packed = <<>>
    /\ unpacked = NoUnpack

InitCodec ==
    /\ state = StartState
    /\ call1 = NoCall
    /\ call2 = NoCall
    /\ now = StartTime
    /\ run1 = NoRun
    /\ run2 = NoRun
    /\ codecN \in CodecCounts
    /\ packed = <<>>
    /\ unpacked = NoUnpack

\* the record of an invocation that returned r
Invocation(r, st, caller, addr, input, suppliedGas, readOnly) ==
    [kind |-> r.kind, caller |-> caller, addr |-> addr, input |-> input,
     suppliedGas |-> suppliedGas, readOnly |-> readOnly,
     nonce |-> GetNonce(st, caller), ret |-> r.ret,
     remainingGas |-> r.remainingGas, err |-> r.err]

\* the host calls the precompile.  A behaviour holds one such invocation and any
\* number of later ones for the same caller, address and payload (call2); since an
\* invocation passes nothing to the next but the ledger, two invocations for
\* different payloads are two behaviours.
RandomNCSPRNGCall ==
    /\ call1.kind = "none"
    /\ \E caller \in Callers, addr \in ContractAddrs, input \in Inputs,
          suppliedGas \in GasValues, readOnly \in BOOLEAN :
          LET r == RandomNCSPRNGFunc(state, caller, addr, input, suppliedGas, readOnly)
          IN /\ state' = r.state
             /\ call1' = Invocation(r, state, caller, addr, input, suppliedGas, readOnly)
    /\ UNCHANGED <<call2, now, run1, run2, codecN, packed, unpacked>>

\* the host calls the precompile again, any number of times, for the same caller,
\* address and payload, with any gas and either mode
RandomNCSPRNGCallAgain ==
    /\ call1.kind # "none"
    /\ \E suppliedGas \in GasValues, readOnly \in BOOLEAN :
          LET r == RandomNCSPRNGFunc(state, call1.caller, call1.addr, call1.input,
                                     suppliedGas, readOnly)
          IN /\ state' = r.state
             /\ call2' = Invocation(r, state, call1.caller, call1.addr, call1.input,
                                    suppliedGas, readOnly)
    /\ UNCHANGED <<call1, now, run1, run2, codecN, packed, unpacked>>

\* a transaction of the host changes an account's nonce
HostSetNonce ==
    \E a \in {UserA, randomNCSPRNGContractAddr}, v \in 0..MaxNonce :
        /\ state' = SetNonce(state, a, v)
        /\ UNCHANGED <<call1, call2, now, run1, run2, codecN, packed, unpacked>>

HostAddBalance ==
    /\ state.balance[UserA] < MaxLedger
    /\ state' = AddBalance(state, UserA, 1)
    /\ UNCHANGED <<call1, call2, now, run1, run2, codecN, packed, unpacked>>

HostSetState ==
    \E value \in 0..MaxLedger :
        /\ state' = SetState(state, UserA, value)
        /\ UNCHANGED <<call1, call2, now, run1, run2, codecN, packed, unpacked>>

HostAddLog ==
    /\ Len(state.logs) < MaxLedger
    /\ state' = AddLog(state, UserA)
    /\ UNCHANGED <<call1, call2, now, run1, run2, codecN, packed, unpacked>>

HostSetPredicateStorageSlots ==
    \E predicates \in {<<>>, <<1>>} :
        /\ state' = SetPredicateStorageSlots(state, UserA, predicates)
        /\ UNCHANGED <<call1, call2, now, run1, run2, codecN, packed, unpacked>>

\* a second passes
Tick ==
    /\ now < StartTime + MaxTicks
    /\ now' = now + 1
    /\ UNCHANGED <<state, call1, call2, run1, run2, codecN, packed, unpacked>>

PRNGInvocation(input, clock) ==
    LET r == Run(input, clock)
    IN [kind |-> IF r.err = Nil THEN "ok" ELSE "err", input |-> input, at |-> clock,
        ret |-> r.ret, err |-> r.err]

\* the host calls randomPRNG.Run
PRNGRun ==
    \E input \in PRNGInputs :
        /\ run1' = PRNGInvocation(input, now)
        /\ run2' = NoRun
        /\ UNCHANGED <<state, call1, call2, now, codecN, packed, unpacked>>

\* the host calls randomPRNG.Run again with the same input
PRNGRunAgain ==
    /\ run1.kind # "none"
    /\ run2' = PRNGInvocation(run1.input, now)
    /\ UNCHANGED <<state, call1, call2, now, run1, codecN, packed, unpacked>>

\* PackRandomNCSPRNGInput(codecN)
CodecPack ==
    /\ packed = <<>>
    /\ PackRandomNCSPRNGInput(codecN).err = Nil
    /\ packed' = PackRandomNCSPRNGInput(codecN).ret
    /\ UNCHANGED <<state, call1, call2, now, run1, run2, codecN, unpacked>>

\* UnpackRandomNCSPRNGInput on what PackRandomNCSPRNGInput returned
CodecUnpack ==
    /\ packed # <<>>
    /\ LET r == UnpackRandomNCSPRNGInput(packed)
       IN unpacked' = [kind |-> "packed", n |-> r.n, err |-> r.err]
    /\ UNCHANGED <<state, call1, call2, now, run1, run2, codecN, packed>>

\* UnpackRandomNCSPRNGInput on the packed input less its 4-byte method identifier
CodecUnpackArguments ==
    /\ packed # <<>>
    /\ LET r == UnpackRandomNCSPRNGInput(SubSeq(packed, 5, Len(packed)))
       IN unpacked' = [kind |-> "arguments", n |-> r.n, err |-> r.err]
    /\ UNCHANGED <<state, call1, call2, now, run1, run2, codecN, packed>>

Next == RandomNCSPRNGCall \/ RandomNCSPRNGCallAgain \/ HostSetNonce

Spec == Init /\ [][Next]_vars

NextLedger ==
    \/ RandomNCSPRNGCall
    \/ HostSetNonce
    \/ HostAddBalance
    \/ HostSetState
    \/ HostAddLog
    \/ HostSetPredicateStorageSlots

SpecLedger == Init /\ [][NextLedger]_vars

NextPRNG == PRNGRun \/ PRNGRunAgain \/ Tick

SpecPRNG == Init /\ [][NextPRNG]_vars

NextCodec == CodecPack \/ CodecUnpack \/ CodecUnpackArguments

SpecCodec == InitCodec /\ [][NextCodec]_vars

-----------------------------------------------------------------------------
(* What the claims are about *)

\* the invocations of RandomNCSPRNGFunc the state holds
Calls == {c \in {call1, call2} : c.kind # "none"}

\* the values an encoded uint256[] holds: the words after the offset and the length
Values(ret) == SubSeq(ret, 3, Len(ret))

\* the count n a 32-byte payload asks for, as a big.Int
Requested(input) == SetBytes(input)

\* a 32-byte payload whose count, in its low 64 bits, is one make() can allocate
ValidInput(input) == Len(input) = 32 /\ ~GreaterBE(SubSeq(input, 25, 32), MaxSliceLen)

\* value_i as the specification derives it, the nonce and the index each written
\* big-endian on w bytes
DerivedValue(addr, caller, nonce, i, w) ==
    LET serverSeed == Keccak256(addr)
        userSeed == Keccak256(caller \o serverSeed)
    IN HMACSHA256(serverSeed,
                  userSeed \o LeftPadBytes(SetUint64(nonce), w)
                           \o LeftPadBytes(SetUint64(i), w))

-----------------------------------------------------------------------------
(* C1 *)

\* C1: every call that succeeds returns exactly n values, n being the count its
\* 32-byte payload holds, and its length word holds n; a call for n = 0 with enough
\* gas succeeds and returns no value.
C1_LengthEqualsCount ==
    \A c \in Calls :
        /\ c.kind = "ok" =>
            /\ SetUint64(Len(Values(c.ret))) = Requested(c.input)
            /\ c.ret[2] = AbiWord(Requested(c.input))
        /\ (c.input = CountInput(0) /\ c.suppliedGas >= RandomNCSPRNGGasCost) =>
            (c.kind = "ok" /\ Values(c.ret) = <<>>)

-----------------------------------------------------------------------------
(* C2 *)

\* C2: two invocations for the same contract address, caller, caller nonce and
\* count, each with enough gas, return the same output and the same error, whatever
\* their gas, their readOnly flag and the rest of the ledger; with the same supplied
\* gas they return the same remaining gas.
C2_Deterministic ==
    (/\ call1.kind # "none"
     /\ call2.kind # "none"
     /\ call1.nonce = call2.nonce
     /\ call1.suppliedGas >= RandomNCSPRNGGasCost
     /\ call2.suppliedGas >= RandomNCSPRNGGasCost)
    => /\ call1.ret = call2.ret
       /\ call1.kind = call2.kind
       /\ call1.err = call2.err
       /\ call1.suppliedGas = call2.suppliedGas => call1.remainingGas = call2.remainingGas

\* C2, witness: two successful invocations for the same caller, address, nonce and count, with
\* different gas and different modes, after the host changed other nonces.
C2_Witness ==
    /\ call1.kind = "ok"
    /\ call2.kind = "ok"
    /\ call1.nonce = call2.nonce
    /\ call1.nonce > 0
    /\ call1.suppliedGas # call2.suppliedGas
    /\ call1.readOnly # call2.readOnly
    /\ Len(Values(call1.ret)) >= 2
    /\ GetNonce(state, randomNCSPRNGContractAddr) > 0

-----------------------------------------------------------------------------
(* C3 *)

\* C3: with one gas unit less than RequiredGas(input) the call fails with out of
\* gas; with exactly RequiredGas(input) a call with a valid input succeeds and
\* returns remainingGas = 0; every successful call returns suppliedGas - 1024.
C3_GasBoundary ==
    \A c \in Calls :
        /\ c.suppliedGas = RequiredGas(c.input) - 1 =>
            (c.kind = "err" /\ c.err = errOutOfGas)
        /\ (c.suppliedGas = RequiredGas(c.input) /\ ValidInput(c.input)) =>
            (c.kind = "ok" /\ c.remainingGas = 0)
        /\ c.kind = "ok" => c.remainingGas = c.suppliedGas - 1024

\* C3, witness: a valid input fails one unit short of the cost and succeeds with the cost.
C3_Witness ==
    /\ call1.kind = "err" /\ call1.suppliedGas = 1023 /\ ValidInput(call1.input)
    /\ call2.kind = "ok" /\ call2.suppliedGas = 1024 /\ call2.remainingGas = 0
    /\ Len(Values(call2.ret)) > 0

-----------------------------------------------------------------------------
(* C4 *)

\* C4 as stated: the count 2^256 - 1 is rejected with the overflow error, the
\* count 2^256 - 2 is not.
C4_MaxRejected ==
    \A c \in Calls :
        /\ (c.input = MaxUint256Input /\ c.suppliedGas >= RandomNCSPRNGGasCost) =>
            (c.kind = "err" /\ c.err = errOverflow)
        /\ c.input = MaxUint256Minus1Input => c.err # errOverflow

\* C4 amended: neither the count 2^256 - 1 nor the count 2^256 - 2 is rejected with
\* the overflow error; no 32-byte payload is.
C4_MaxNotRejected ==
    \A c \in Calls :
        Len(c.input) = 32 => c.err # errOverflow

\* C4, witness: the count 2^256 - 1 was submitted with enough gas, twice, and passed the
\* overflow check both times.
C4_Witness ==
    /\ call1.input = MaxUint256Input
    /\ call1.suppliedGas >= RandomNCSPRNGGasCost
    /\ call1.kind = "panic"
    /\ call2.kind = "panic"

-----------------------------------------------------------------------------
(* C5 *)

\* C5 as stated: UnpackRandomNCSPRNGInput applied to what PackRandomNCSPRNGInput(n)
\* returned succeeds and returns n.
C5_RoundTrip ==
    unpacked.kind = "packed" => (unpacked.err = Nil /\ unpacked.n = codecN)

\* C5 amended: PackRandomNCSPRNGInput(n) is the 4-byte method identifier followed by
\* the 32-byte big-endian n; UnpackRandomNCSPRNGInput fails on it with invalid input
\* length, and applied to it less the method identifier succeeds and returns n.
C5_RoundTripArguments ==
    /\ packed # <<>> =>
        /\ Len(packed) = 36
        /\ SubSeq(packed, 1, 4) = randomNCSPRNGSelector
        /\ StripZeros(SubSeq(packed, 5, 36)) = codecN
    /\ unpacked.kind = "packed" => unpacked.err = errInvalidInputLength
    /\ unpacked.kind = "arguments" => (unpacked.err = Nil /\ unpacked.n = codecN)

\* C5, witness: a 32-byte count was packed and its arguments unpacked.
C5_Witness ==
    /\ unpacked.kind = "arguments"
    /\ unpacked.err = Nil
    /\ Len(codecN) = 32

-----------------------------------------------------------------------------
(* C6 *)

\* C6: gas is deducted before the payload is decoded, so a call short of gas fails
\* with out of gas whatever its payload and returns remainingGas = 0; every other
\* failure returns remainingGas = suppliedGas - 1024; no failure returns an output.
C6_FailurePaths ==
    \A c \in Calls :
        /\ c.suppliedGas < RandomNCSPRNGGasCost =>
            (c.kind = "err" /\ c.err = errOutOfGas /\ c.remainingGas = 0)
        /\ c.kind = "err" =>
            /\ c.ret = <<>>
            /\ c.err # errOutOfGas => c.remainingGas = c.suppliedGas - 1024

\* C6, witness: a failure after metering with gas left, and a failure of metering.
C6_Witness ==
    /\ call1.kind = "err" /\ call1.err = errInvalidInputLength
    /\ call1.suppliedGas > 1024 /\ call1.remainingGas > 0
    /\ call2.kind = "err" /\ call2.err = errOutOfGas

-----------------------------------------------------------------------------
(* C7 *)

\* C7: a step that invokes RandomNCSPRNGFunc leaves the whole ledger as it was
\* (nonces, balances, storage, logs, predicate slots), and the nonce the invocation
\* read is the caller's nonce before and after it.
C7_ReadOnly ==
    [][(call1' # call1 \/ call2' # call2) =>
        /\ state' = state
        /\ call1' # call1 =>
            (call1'.nonce = GetNonce(state, call1'.caller)
             /\ call1'.nonce = GetNonce(state', call1'.caller))
        /\ call2' # call2 =>
            (call2'.nonce = GetNonce(state, call2'.caller)
             /\ call2'.nonce = GetNonce(state', call2'.caller))]_vars

\* C7, witness: a successful call that was free to write, in a ledger the host has written.
C7_Witness ==
    /\ call1.kind = "ok"
    /\ ~call1.readOnly
    /\ Len(Values(call1.ret)) > 0
    /\ call1.nonce > 0
    /\ state.balance[UserA] > 0
    /\ state.storage[UserA] > 0
    /\ Len(state.logs) > 0
    /\ state.predicates[UserA] # <<>>

-----------------------------------------------------------------------------
(* C8 *)

\* C8: two invocations of randomPRNG.Run with the same input return the same output
\* and the same error, whenever each happens.
C8_RunPure ==
    (run1.kind # "none" /\ run2.kind # "none") =>
        (run1.ret = run2.ret /\ run1.err = run2.err)

-----------------------------------------------------------------------------
(* C9 *)

\* C9 as stated: the i-th returned value is the HMAC-SHA256 under serverSeed of
\* userSeed, the 8-byte big-endian nonce and the 8-byte big-endian i.
C9_Derivation8 ==
    \A c \in Calls :
        c.kind = "ok" =>
            \A i \in 1..Len(Values(c.ret)) :
                Values(c.ret)[i] = DerivedValue(c.addr, c.caller, c.nonce, i - 1, 8)

\* C9 amended: the i-th returned value is the HMAC-SHA256 under serverSeed of
\* userSeed, the nonce and i, each big-endian on 32 bytes; it depends on the
\* contract address, the caller, the nonce and i alone: the first k values
\* returned are what a request for k values returns.
C9_Derivation32 ==
    \A c \in Calls :
        c.kind = "ok" =>
            /\ \A i \in 1..Len(Values(c.ret)) :
                    Values(c.ret)[i] = DerivedValue(c.addr, c.caller, c.nonce, i - 1, 32)
            /\ \A k \in 0..Len(Values(c.ret)) :
                    SubSeq(Values(c.ret), 1, k) =
                        generateRandomNCSPRNG(c.addr, c.caller, FromBig(SetUint64(k)).val,
                            SetNonce(StartState, c.caller, c.nonce)).randomValues

\* C9, witness: a successful call returned at least two values under a nonce above 0.
C9_Witness ==
    /\ call1.kind = "ok"
    /\ Len(Values(call1.ret)) >= 2
    /\ call1.nonce > 0
    /\ Values(call1.ret)[1] # Values(call1.ret)[2]

-----------------------------------------------------------------------------
(* C10 *)

\* C10: with enough gas, a payload whose length is not 32 fails with invalid input
\* length, returns no output and remainingGas = suppliedGas - 1024; a payload of 32
\* bytes does not fail with invalid input length.
C10_ExactLength ==
    \A c \in Calls :
        c.suppliedGas >= RandomNCSPRNGGasCost =>
            /\ Len(c.input) # 32 =>
                /\ c.kind = "err"
                /\ c.err = errInvalidInputLength
                /\ c.ret = <<>>
                /\ c.remainingGas = c.suppliedGas - 1024
            /\ Len(c.input) = 32 => c.err # errInvalidInputLength

\* C10, witness: the 36-byte packed form was submitted with enough gas and refused.
C10_Witness ==
    /\ call1.input = SelectorInput(1)
    /\ call1.suppliedGas >= RandomNCSPRNGGasCost
    /\ call1.err = errInvalidInputLength
    /\ call2.input = SelectorInput(1)
    /\ call2.remainingGas = 1

=============================================================================
